---- MODULE Spec2Model ----
(***************************************************************************)
(* Subscription layer of zenoh (zenoh/src/subscriber.rs): the builders     *)
(* (SubscriberBuilder, CallbackSubscriberBuilder, HandlerSubscriberBuilder)*)
(* their one-shot resolution (run / wait / poll), and the life cycle of    *)
(* the subscription handle (CallbackSubscriber, HandlerSubscriber): pull,  *)
(* close, resolution of the action returned by close, and drop.            *)
(*                                                                         *)
(* The session is an external collaborator.  It is modelled at its         *)
(* boundary: declare_subscriber / declare_local_subscriber / unsubscribe / *)
(* pull, each answering "ok" or "err".                                     *)
(***************************************************************************)
EXTENDS Integers, Sequences, FiniteSets, TLC

\* Number of declare calls the session accepts in one behaviour; every
\* handle comes from one declare call, so it also bounds the handles.
MaxDeclares == 2

\* Number of times one builder value is run (run, wait or poll).
MaxRuns == 2

\* The capacity of the channel behind a handler subscription
\* (API_DATA_RECEPTION_CHANNEL_SIZE), kept small.
ChanCap == 2

\* The number of samples the session delivers.
MaxSamples == 3

\* The longest property string parsed.
MaxLen == 3

KeyExprs == {"k/a"}

Reliabilities == {"Reliable", "BestEffort"}

SubModes == {"Push", "Pull"}

\* Option<Period>: None, or Some(p) for one representative period p.
Periods == {"None", "Some(p)"}

\* ZResult of a session call.
Responses == {"ok", "err"}

HandleIds == 1..MaxDeclares

\* Record ids; 0 is the id of no record.
Ids == 0..MaxDeclares

VARIABLES
    builder,    \* the builder value held by the caller
    stats,      \* history of the builder value: runs, declare calls, panics
    handles,    \* the subscription handles, in order of creation
    nextId,     \* session: the id of the next subscription record
    records,    \* session: the ids of the registered subscription records
    declCount,  \* session: number of declare calls received
    unsubLog,   \* session: per record id, the result of each unsubscribe call
    out,        \* what the last operation returned and the calls it made
    origin,     \* history: the declare call the first handle came from
    chan,       \* the flume channel of a handler subscription and its use
    props       \* a property string, parsed and rebuilt

\* The variables the builder and handle operations never touch.
aux == <<origin, chan, props>>

vars == <<builder, stats, handles, nextId, records, declCount, unsubLog, out,
          origin, chan, props>>

----------------------------------------------------------------------------
(* Values *)

NoInfo == [reliability |-> "-", mode |-> "-", period |-> "-"]

NoBuilder ==
    [kind |-> "none", key_expr |-> "-", reliability |-> "-", mode |-> "-",
     period |-> "-", local |-> FALSE, slot |-> FALSE, moved |-> FALSE]

NoStats == [runs |-> 0, decls |-> 0, panics |-> 0]

NoHandle ==
    [kind |-> "none", id |-> 0, key_expr |-> "-", alive |-> FALSE,
     pc |-> "none", fut |-> 0, result |-> "none"]

NoOut ==
    [op |-> "none", resp |-> "-", status |-> "-", result |-> "-",
     calls |-> <<>>, handle |-> 0]

NoOrigin == [fn |-> "-", local |-> FALSE]

\* No channel yet: q the queued samples, rcv whether a receiver exists,
\* sending the sample of the consumer invocation in progress (0: none),
\* invoked the number of consumer invocations started, taken the samples
\* the caller read, last the outcome of the last completed invocation.
NoChan ==
    [q |-> <<>>, rcv |-> FALSE, sending |-> 0, invoked |-> 0, taken |-> <<>>,
     last |-> [sample |-> 0, rcv |-> FALSE, outcome |-> "-"]]

\* No property string yet: input the string given, parsed the Properties
\* made of it, built the Properties rebuilt from its pairs; key, val, ret and
\* after the arguments, the result and the outcome of an insert.
NoProps ==
    [pc |-> "idle", input |-> <<>>, parsed |-> <<>>, built |-> <<>>,
     key |-> <<>>, val |-> <<>>, ret |-> <<"None">>, after |-> <<>>]

----------------------------------------------------------------------------
(* SubscriberBuilder and its two specialisations: the setters.  The three  *)
(* builder types carry the same fields and the same setter bodies.         *)

\* Session::subscribe: a SubscriberBuilder with the default configuration.
subscribe(k, r) ==
    [kind |-> "sub", key_expr |-> k, reliability |-> r, mode |-> "Push",
     period |-> "None", local |-> FALSE, slot |-> FALSE, moved |-> FALSE]

\* callback() building the specialised builder with the initial mode and
\* period instead of the ones it was given.
callback_defaults(b) ==
    [b EXCEPT !.kind = "cb", !.slot = TRUE, !.mode = "Push", !.period = "None"]

callback(b) == [b EXCEPT !.kind = "cb", !.slot = TRUE]

with(b) == [b EXCEPT !.kind = "hd", !.slot = TRUE]

reliability(b, r) == [b EXCEPT !.reliability = r]

reliable(b) == [b EXCEPT !.reliability = "Reliable"]

best_effort(b) == [b EXCEPT !.reliability = "BestEffort"]

\* mode() clearing the period as push_mode() does.
mode_clearsPeriod(b, m) == [b EXCEPT !.mode = m, !.period = "None"]

mode(b, m) == [b EXCEPT !.mode = m]

push_mode(b) == [b EXCEPT !.mode = "Push", !.period = "None"]

pull_mode(b) == [b EXCEPT !.mode = "Pull"]

period(b, p) == [b EXCEPT !.period = p]

local(b) == [b EXCEPT !.local = TRUE]

----------------------------------------------------------------------------
(* Runnable::run of the three builders.  resp is the session's answer to   *)
(* the declare call, should one be made.  The result names the builder     *)
(* after the run, the value returned ("panic" when the run unwinds), the   *)
(* session calls made and the kind of handle produced.                     *)

\* The declare call of a builder whose locality is not looked at.
declareCall_ignoresLocal(b) ==
    [fn |-> "declare_subscriber", key_expr |-> b.key_expr, id |-> 0,
     info |-> [reliability |-> b.reliability, mode |-> b.mode,
               period |-> b.period]]

declareCall(b) ==
    IF b.local
    THEN [fn |-> "declare_local_subscriber", key_expr |-> b.key_expr,
          id |-> 0, info |-> NoInfo]
    ELSE [fn |-> "declare_subscriber", key_expr |-> b.key_expr, id |-> 0,
          info |-> [reliability |-> b.reliability, mode |-> b.mode,
                    period |-> b.period]]

\* runCallback reading the consumer without emptying the slot.
runCallback_keepsSlot(b, resp) ==
    IF ~b.slot
    THEN [b |-> b, result |-> "panic", calls |-> <<>>, hkind |-> "none"]
    ELSE [b |-> b, result |-> resp, calls |-> <<declareCall(b)>>,
          hkind |-> IF resp = "ok" THEN "cb" ELSE "none"]

\* runCallback building a handle whatever the session answered.
runCallback_handleOnError(b, resp) ==
    IF ~b.slot
    THEN [b |-> b, result |-> "panic", calls |-> <<>>, hkind |-> "none"]
    ELSE [b |-> [b EXCEPT !.slot = FALSE], result |-> resp,
          calls |-> <<declareCall(b)>>, hkind |-> "cb"]

\* runCallback emptying the slot only once the session has accepted.
runCallback_takesOnSuccess(b, resp) ==
    IF ~b.slot
    THEN [b |-> b, result |-> "panic", calls |-> <<>>, hkind |-> "none"]
    ELSE [b |-> IF resp = "ok" THEN [b EXCEPT !.slot = FALSE] ELSE b,
          result |-> resp, calls |-> <<declareCall(b)>>,
          hkind |-> IF resp = "ok" THEN "cb" ELSE "none"]

runCallback(b, resp) ==
    IF ~b.slot
    THEN [b |-> b, result |-> "panic", calls |-> <<>>, hkind |-> "none"]
    ELSE [b |-> [b EXCEPT !.slot = FALSE], result |-> resp,
          calls |-> <<declareCall(b)>>,
          hkind |-> IF resp = "ok" THEN "cb" ELSE "none"]

\* runHandler building a handle whatever the session answered.
runHandler_handleOnError(b, resp) ==
    IF ~b.slot
    THEN [b |-> b, result |-> "panic", calls |-> <<>>, hkind |-> "none"]
    ELSE [b |-> [b EXCEPT !.slot = FALSE], result |-> resp,
          calls |-> <<declareCall(b)>>, hkind |-> "hd"]

runHandler(b, resp) ==
    IF ~b.slot
    THEN [b |-> b, result |-> "panic", calls |-> <<>>, hkind |-> "none"]
    ELSE [b |-> [b EXCEPT !.slot = FALSE], result |-> resp,
          calls |-> <<declareCall(b)>>,
          hkind |-> IF resp = "ok" THEN "hd" ELSE "none"]

runSubscriber(b, resp) ==
    LET hb == [b EXCEPT !.kind = "hd", !.slot = TRUE]
        r  == runHandler(hb, resp)
    IN  [r EXCEPT !.b = b]

run(b, resp) ==
    CASE b.kind = "cb" -> runCallback(b, resp)
      [] b.kind = "hd" -> runHandler(b, resp)
      [] OTHER         -> runSubscriber(b, resp)

\* poll reporting "not yet ready" instead of doing the work inline.
poll_pending(b, resp) ==
    [status |-> "Pending",
     r |-> [b |-> b, result |-> "-", calls |-> <<>>, hkind |-> "none"]]

\* Future::poll: one poll step runs the builder and reports completion.
poll(b, resp) == [status |-> "Ready", r |-> run(b, resp)]

\* ZFuture::wait: runs the builder on the calling thread.  The builder is
\* taken by value: after the call only its type is left to speak of.
wait(b, resp) ==
    LET r == run(b, resp)
    IN  [status |-> "returned",
         r |-> [r EXCEPT !.b = [NoBuilder EXCEPT !.kind = b.kind,
                                                 !.moved = TRUE]]]

----------------------------------------------------------------------------
(* CallbackSubscriber / HandlerSubscriber *)

\* pull forwarding a request that does not name the handle's key expression.
pull_noKey(h) ==
    [fn |-> "pull", key_expr |-> "-", id |-> 0, info |-> NoInfo]

\* CallbackSubscriber::pull, HandlerSubscriber::pull: the request forwarded
\* to the session.
pull(h) ==
    [fn |-> "pull", key_expr |-> h.key_expr, id |-> 0, info |-> NoInfo]

\* close leaving the liveness flag as it is.
closeSetAlive_forgotten(h) == h

\* CallbackSubscriber::close, first statement.
closeSetAlive(h) == [h EXCEPT !.alive = FALSE]

\* CallbackSubscriber::close, second statement: the call whose future is
\* returned to the caller.
closeCall(h) ==
    [fn |-> "unsubscribe", key_expr |-> "-", id |-> h.id, info |-> NoInfo]

\* drop that does not look at the liveness flag.
drop_unconditional(h, resp) == [unsub |-> TRUE, result |-> "none"]

\* drop with the liveness test inverted.
drop_inverted(h, resp) == [unsub |-> ~h.alive, result |-> "none"]

\* drop unwrapping the result of the unregistration.
drop_unwraps(h, resp) ==
    [unsub |-> h.alive,
     result |-> IF h.alive /\ resp = "err" THEN "panic" ELSE "none"]

\* Drop for CallbackSubscriber: whether unsubscribe is called (and waited
\* for), and what the owner of the handle observes given the session's
\* answer ("none": the drop returns normally and reports nothing).
drop(h, resp) == [unsub |-> h.alive, result |-> "none"]

\* close swallowing the session's error.
closeResult_swallowed(sessionResult) == "ok"

\* The value the caller gets from the future returned by close.
closeResult(sessionResult) == sessionResult

----------------------------------------------------------------------------
(* Session boundary *)

\* declare_subscriber / declare_local_subscriber: the subscription record.
declare(resp, k) ==
    IF resp = "ok" THEN [id |-> nextId, key_expr |-> k]
                   ELSE [id |-> 0, key_expr |-> k]

\* The session performs an unsubscribe for id with the given answer.
unsubscribed(id, resp) == IF resp = "ok" THEN records \ {id} ELSE records

----------------------------------------------------------------------------
TypeOK ==
    /\ builder.kind \in {"none", "sub", "cb", "hd"}
    /\ stats.runs \in 0..(MaxRuns + 1)
    /\ nextId \in 1..(MaxDeclares + 1)
    /\ records \subseteq Ids
    /\ declCount \in 0..MaxDeclares
    /\ \A h \in HandleIds :
          handles[h].pc \in {"none", "live", "close1", "closing",
                             "closed", "dropped"}

Init ==
    /\ builder = NoBuilder
    /\ stats = NoStats
    /\ handles = [h \in HandleIds |-> NoHandle]
    /\ nextId = 1
    /\ records = {}
    /\ declCount = 0
    /\ unsubLog = [i \in Ids |-> <<>>]
    /\ out = NoOut
    /\ origin = NoOrigin
    /\ chan = NoChan
    /\ props = NoProps

Usable == builder.kind # "none" /\ ~builder.moved

SessionUnchanged == UNCHANGED <<nextId, records, declCount, unsubLog>>

\* A setter: the builder is consumed and a new one returned.
Set(nb) ==
    /\ builder' = nb
    /\ out' = NoOut
    /\ UNCHANGED <<stats, handles>>
    /\ SessionUnchanged
    /\ UNCHANGED aux

Subscribe ==
    \E k \in KeyExprs, r \in Reliabilities :
        /\ builder' = subscribe(k, r)
        /\ stats' = NoStats
        /\ out' = NoOut
        /\ UNCHANGED handles
        /\ SessionUnchanged
        /\ UNCHANGED aux

Callback ==
    /\ Usable /\ builder.kind = "sub"
    /\ builder' = callback(builder)
    /\ stats' = NoStats
    /\ out' = NoOut
    /\ UNCHANGED handles
    /\ SessionUnchanged
    /\ UNCHANGED aux

With ==
    /\ Usable /\ builder.kind = "sub"
    /\ builder' = with(builder)
    /\ stats' = NoStats
    /\ out' = NoOut
    /\ UNCHANGED handles
    /\ SessionUnchanged
    /\ UNCHANGED aux

SetReliability == Usable /\ \E r \in Reliabilities : Set(reliability(builder, r))

SetReliable == Usable /\ Set(reliable(builder))

SetBestEffort == Usable /\ Set(best_effort(builder))

SetMode == Usable /\ \E m \in SubModes : Set(mode(builder, m))

SetPushMode == Usable /\ Set(push_mode(builder))

SetPullMode == Usable /\ Set(pull_mode(builder))

SetPeriod == Usable /\ \E p \in Periods : Set(period(builder, p))

SetLocal == Usable /\ Set(local(builder))

\* The first handle slot not yet used.
FreeHandle == Cardinality({h \in HandleIds : handles[h].pc # "none"}) + 1

\* The effect of one resolution of the builder: the declare call reaches the
\* session, which answers resp; a handle is built when the run produced one.
Resolve(opname, res, resp) ==
    LET r   == res.r
        n   == Len(r.calls)
        rec == declare(resp, builder.key_expr)
        h   == IF r.hkind = "none" THEN 0 ELSE FreeHandle
    IN  /\ stats.runs < MaxRuns
        /\ n > 0 => declCount < MaxDeclares
        /\ builder' = r.b
        /\ stats' = [runs   |-> stats.runs + 1,
                     decls  |-> stats.decls + n,
                     panics |-> stats.panics
                                  + (IF r.result = "panic" THEN 1 ELSE 0)]
        /\ declCount' = declCount + n
        /\ nextId' = IF n > 0 /\ resp = "ok" THEN nextId + 1 ELSE nextId
        /\ records' = IF n > 0 /\ resp = "ok" THEN records \cup {nextId}
                                               ELSE records
        /\ handles' = IF h = 0 THEN handles
                      ELSE [handles EXCEPT ![h] =
                              [kind |-> r.hkind, id |-> rec.id,
                               key_expr |-> rec.key_expr, alive |-> TRUE,
                               pc |-> "live", fut |-> 0, result |-> "none"]]
        /\ out' = [op |-> opname, resp |-> resp, status |-> res.status,
                   result |-> r.result, calls |-> r.calls, handle |-> h]
        /\ UNCHANGED unsubLog

\* Runnable::run called on the builder in place.
Run ==
    /\ Usable
    /\ \E resp \in Responses :
          Resolve("run", [status |-> "returned", r |-> run(builder, resp)], resp)
    /\ UNCHANGED aux

Wait ==
    /\ Usable
    /\ \E resp \in Responses : Resolve("wait", wait(builder, resp), resp)
    /\ UNCHANGED aux

Poll ==
    /\ Usable
    /\ \E resp \in Responses : Resolve("poll", poll(builder, resp), resp)
    /\ UNCHANGED aux

\* pull(): the request goes to the session, whose action is returned as is.
Pull ==
    \E h \in HandleIds :
        /\ handles[h].pc = "live"
        /\ out' = [NoOut EXCEPT !.op = "pull", !.status = "returned",
                                !.result = "session", !.calls = <<pull(handles[h])>>]
        /\ UNCHANGED <<builder, stats, handles>>
        /\ SessionUnchanged
        /\ UNCHANGED aux

\* close(), first statement: self.alive = false.
CloseBegin ==
    \E h \in HandleIds :
        /\ handles[h].pc = "live"
        /\ handles' = [handles EXCEPT
                         ![h] = [closeSetAlive(handles[h]) EXCEPT !.pc = "close1"]]
        /\ out' = NoOut
        /\ UNCHANGED <<builder, stats>>
        /\ SessionUnchanged
        /\ UNCHANGED aux

\* The session's log after Drop::drop ran on handle h with the session
\* answering resp: the call, when made, is waited for.
DropLog(log, h, d, resp) ==
    IF d.unsub THEN [log EXCEPT ![h.id] = Append(@, resp)] ELSE log

\* close(), second statement, self.session.unsubscribe(self.state.id), and
\* the end of the function, where self goes out of scope and is dropped.
\* The action returned to the caller is the session's, not yet resolved.
CloseUnsubscribeOf(h, resp) ==
    LET c   == closeCall(handles[h])
        log == [unsubLog EXCEPT ![c.id] = Append(@, "pending")]
        d   == drop(handles[h], resp)
    IN  /\ handles[h].pc = "close1"
        /\ ~d.unsub => resp = "ok"
        /\ unsubLog' = DropLog(log, handles[h], d, resp)
        /\ records' = IF d.unsub THEN unsubscribed(handles[h].id, resp)
                                 ELSE records
        /\ handles' = [handles EXCEPT ![h].pc = "closing",
                                      ![h].fut = Len(unsubLog[c.id]) + 1,
                                      ![h].result = d.result]
        /\ out' = NoOut
        /\ UNCHANGED <<builder, stats, nextId, declCount>>

CloseUnsubscribe ==
    \E h \in HandleIds, resp \in Responses :
        CloseUnsubscribeOf(h, resp) /\ UNCHANGED aux

\* The caller resolves the action returned by close(): the session performs
\* the unregistration and answers resp.
CloseResolve ==
    \E h \in HandleIds, resp \in Responses :
        LET id == handles[h].id
        IN  /\ handles[h].pc = "closing"
            /\ unsubLog' = [unsubLog EXCEPT ![id][handles[h].fut] = resp]
            /\ records' = unsubscribed(id, resp)
            /\ handles' = [handles EXCEPT ![h].pc = "closed",
                                          ![h].result = closeResult(resp)]
            /\ out' = NoOut
            /\ UNCHANGED <<builder, stats, nextId, declCount>>
            /\ UNCHANGED aux

\* A handle the caller still holds goes out of scope: Drop::drop runs.
DropOf(h, resp) ==
    LET d == drop(handles[h], resp)
    IN  /\ handles[h].pc = "live"
        /\ ~d.unsub => resp = "ok"
        /\ unsubLog' = DropLog(unsubLog, handles[h], d, resp)
        /\ records' = IF d.unsub THEN unsubscribed(handles[h].id, resp)
                                 ELSE records
        /\ handles' = [handles EXCEPT ![h].pc = "dropped",
                                      ![h].result = d.result]
        /\ out' = NoOut
        /\ UNCHANGED <<builder, stats, nextId, declCount>>

Drop ==
    \E h \in HandleIds, resp \in Responses : DropOf(h, resp) /\ UNCHANGED aux

Next ==
    \/ Subscribe
    \/ Callback
    \/ With
    \/ SetReliability
    \/ SetReliable
    \/ SetBestEffort
    \/ SetMode
    \/ SetPushMode
    \/ SetPullMode
    \/ SetPeriod
    \/ SetLocal
    \/ Run
    \/ Wait
    \/ Poll
    \/ Pull
    \/ CloseBegin
    \/ CloseUnsubscribe
    \/ CloseResolve
    \/ Drop

Spec == Init /\ [][Next]_vars

----------------------------------------------------------------------------
(* Properties *)

Created(h) == handles[h].pc # "none"

\* The handle no longer exists: it was dropped, or close() consumed it.
Gone(h) == handles[h].pc \in {"closing", "closed", "dropped"}

RunOps == {"run", "wait", "poll"}

\* C1: for every handle, the session's unsubscribe entry point is called at
\* most once with the handle's record id, whatever was done with the handle;
\* the drop at the end of close() issues no second call.
C1_UnsubscribeAtMostOnce ==
    \A h \in HandleIds : Created(h) => Len(unsubLog[handles[h].id]) <= 1

C1_Witness ==
    \E h \in HandleIds :
        /\ handles[h].pc = "closing"
        /\ Len(unsubLog[handles[h].id]) = 1

\* C2: once a handle produced by a successful declare no longer exists
\* (dropped, or closed with the returned action resolved or not), an
\* unsubscribe call for its record id has been issued to the session.
C2_NoLeak ==
    \A h \in HandleIds : Gone(h) => Len(unsubLog[handles[h].id]) >= 1

C2_Witness ==
    \E h, g \in HandleIds :
        /\ handles[h].pc = "dropped"
        /\ handles[g].pc = "closing"
        /\ unsubLog[handles[g].id] = <<"pending">>

\* C3: a CallbackSubscriberBuilder or HandlerSubscriberBuilder makes exactly
\* one declare call on its first run and none afterwards: every later run of
\* the same builder value panics on the emptied slot.
C3_OneDeclarePerBuilder ==
    builder.kind \in {"cb", "hd"} =>
        /\ stats.decls = (IF stats.runs = 0 THEN 0 ELSE 1)
        /\ stats.panics = stats.runs - stats.decls

C3_Witness ==
    /\ builder.kind = "cb"
    /\ stats.runs = 2
    /\ stats.decls = 1
    /\ stats.panics = 1
    /\ out.result = "panic"

\* C4: however often the same SubscriberBuilder value is run, at most one
\* declare call reaches the session and every run after the first fails fast.
C4_SubscriberBuilderOneShot ==
    builder.kind = "sub" =>
        /\ stats.decls <= 1
        /\ stats.runs >= 2 => stats.panics = stats.runs - 1

\* C5: the first poll of a builder reports Ready, with the result and the
\* session calls that wait() on the same builder, with the same session
\* answer, gives.
C5_PollEqualsWait ==
    [][(out'.op = "poll" /\ stats.runs = 0) =>
          LET w == wait(builder, out'.resp).r
          IN  /\ out'.status = "Ready"
              /\ out'.result = w.result
              /\ out'.calls = w.calls
              /\ (out'.handle # 0) = (w.hkind # "none")]_vars

C5_Witness ==
    /\ out.op = "poll"
    /\ out.status = "Ready"
    /\ out.result = "ok"
    /\ stats.runs = 1
    /\ out.handle # 0

\* C6: when the declare call fails, the resolution returns the error and
\* produces no handle; handles exist only for successful declarations, and
\* unsubscribe is only ever called with the id of a successful declaration.
C6_DeclareErrorNoHandle ==
    /\ (out.op \in RunOps /\ out.calls # <<>> /\ out.resp = "err") =>
          (out.result = "err" /\ out.handle = 0)
    /\ Cardinality({h \in HandleIds : Created(h)}) = nextId - 1
    /\ \A i \in Ids : unsubLog[i] # <<>> => i \in 1..(nextId - 1)

C6_Witness ==
    /\ out.op \in RunOps
    /\ out.calls # <<>>
    /\ out.resp = "err"
    /\ out.result = "err"
    /\ declCount = MaxDeclares
    /\ nextId = 1

\* C7: in close(), the liveness flag is already false in the state in which
\* the unsubscribe call is about to be issued, and the action close()
\* returns resolves to the session's result for that very call.
C7_CloseOrderAndResult ==
    \A h \in HandleIds :
        /\ handles[h].pc = "close1" =>
              (~handles[h].alive /\ unsubLog[handles[h].id] = <<>>)
        /\ handles[h].pc = "closing" => ~handles[h].alive
        /\ handles[h].pc = "closed" =>
              handles[h].result = unsubLog[handles[h].id][handles[h].fut]

C7_Witness ==
    \E h, g \in HandleIds :
        /\ handles[h].pc = "closed" /\ handles[h].result = "ok"
        /\ handles[g].pc = "close1"

\* C8: when the unregistration of an explicit close fails, the caller of
\* close gets the error, the handle is closed all the same (flag false) and
\* no further unsubscribe call is made for it.
C8_CloseErrorNotRetried ==
    \A h \in HandleIds :
        (handles[h].pc = "closed"
            /\ unsubLog[handles[h].id][handles[h].fut] = "err") =>
        /\ handles[h].result = "err"
        /\ ~handles[h].alive
        /\ Len(unsubLog[handles[h].id]) = 1

C8_Witness ==
    \E h \in HandleIds :
        /\ handles[h].pc = "closed"
        /\ handles[h].result = "err"
        /\ handles[h].id \in records

\* C9: dropping a handle that is still alive issues exactly one unsubscribe
\* call for its id and waits for it; its error is discarded, the drop
\* reports nothing.  The drop of a handle whose flag is false (the one at
\* the end of close()) issues no call.
C9_DropBestEffort ==
    \A h \in HandleIds :
        /\ handles[h].pc = "dropped" =>
              /\ Len(unsubLog[handles[h].id]) = 1
              /\ unsubLog[handles[h].id][1] \in Responses
              /\ handles[h].result = "none"
        /\ handles[h].pc = "closing" =>
              /\ unsubLog[handles[h].id] = <<"pending">>
              /\ handles[h].result = "none"

C9_Witness ==
    \E h \in HandleIds :
        /\ handles[h].pc = "dropped"
        /\ unsubLog[handles[h].id] = <<"err">>
        /\ handles[h].result = "none"

Phase(h) ==
    CASE h.pc = "none"    -> "None"
      [] h.pc = "live"    -> "Alive"
      [] h.pc = "closed"  -> "Closed"
      [] h.pc = "dropped" -> "Dropped"
      [] OTHER            -> "Closing"

PhaseEdges ==
    {<<"None", "Alive">>, <<"Alive", "Closing">>, <<"Closing", "Closed">>,
     <<"Alive", "Dropped">>}

\* C10 as stated: at the end of a handle's life, closed or dropped, its
\* liveness flag has become false.
C10_FlagFalseAtEndOfLife ==
    \A h \in HandleIds :
        handles[h].pc \in {"closed", "dropped"} => ~handles[h].alive

\* C10 as amended: the flag is true at creation and changes at most once, to
\* false, in the step that starts an explicit close; the drop of an alive
\* handle leaves the flag alone; a handle only moves Alive -> Closing ->
\* Closed or Alive -> Dropped and never leaves Closed or Dropped.
C10_Lifecycle ==
    [][\A h \in HandleIds :
          LET a == handles[h]
              b == handles'[h]
          IN  a # b =>
                /\ Phase(a) # Phase(b) => <<Phase(a), Phase(b)>> \in PhaseEdges
                /\ (Phase(a) = "None" /\ Phase(b) = "Alive") => b.alive
                /\ (Phase(a) # "None" /\ b.alive # a.alive) =>
                      (a.alive /\ Phase(a) = "Alive" /\ Phase(b) = "Closing")
                /\ (Phase(a) = "Alive" /\ Phase(b) = "Closing") => ~b.alive
      ]_vars

C10_Witness ==
    \E h, g \in HandleIds :
        /\ handles[h].pc = "closed" /\ ~handles[h].alive
        /\ handles[g].pc = "dropped" /\ handles[g].alive

\* C13 (as stated): on every builder configuration that has a period set,
\* setting the mode to Push, by push_mode() or by mode(SubMode::Push), yields
\* a configuration whose period is none.  mode() changes the mode only, so
\* the statement fails for mode(SubMode::Push).
C13_PushClearsPeriod ==
    (Usable /\ builder.period # "None") =>
        /\ push_mode(builder).period = "None"
        /\ mode(builder, "Push").period = "None"

\* C14 (as stated): whatever setters were applied, the configuration handed
\* to the session's declare call never has mode Push together with a period.
\* period() stores the period whatever the mode, and Push is the initial
\* mode, so the statement fails.
C14_PeriodOnlyInPull ==
    out.op \in RunOps =>
        \A i \in 1..Len(out.calls) :
            out.calls[i].info.mode = "Push" => out.calls[i].info.period = "None"

\* C18: every pull() on a handle the caller holds forwards exactly one pull
\* request, carrying that handle's key expression, returns what the session
\* returned, and changes neither a handle (its liveness flag included) nor
\* the session's records and calls; the subscription's mode is not consulted.
C18_PullForwardsOneRequest ==
    [][out'.op = "pull" =>
          /\ Len(out'.calls) = 1
          /\ out'.result = "session"
          /\ \E h \in HandleIds :
                /\ handles[h].pc = "live"
                /\ handles[h].alive
                /\ out'.calls[1] = [fn |-> "pull",
                                    key_expr |-> handles[h].key_expr,
                                    id |-> 0, info |-> NoInfo]
          /\ handles' = handles
          /\ records' = records
          /\ unsubLog' = unsubLog
          /\ declCount' = declCount]_vars

C18_Witness ==
    /\ out.op = "pull"
    /\ out.calls[1].key_expr \in KeyExprs
    /\ \E h \in HandleIds : handles[h].pc = "live" /\ handles[h].alive

----------------------------------------------------------------------------
(* Two handles on one subscription record.  CallbackSubscriber holds its   *)
(* record as Arc<SubscriberState> next to a flag of its own, and its       *)
(* fields are visible to the whole crate: two handles built on clones of   *)
(* one Arc share the record and nothing else.                              *)

SharedId == 1

\* A handle on the shared record, bare ("cb") or wrapped in a
\* HandlerSubscriber ("hd").
SharedHandle(k) ==
    [kind |-> k, id |-> SharedId, key_expr |-> "k/a", alive |-> TRUE,
     pc |-> "live", fut |-> 0, result |-> "none"]

InitShared ==
    /\ builder = NoBuilder
    /\ stats = NoStats
    /\ \E k1, k2 \in {"cb", "hd"} :
          handles = [h \in HandleIds |->
                       CASE h = 1 -> SharedHandle(k1)
                         [] h = 2 -> SharedHandle(k2)
                         [] OTHER -> NoHandle]
    /\ nextId = SharedId + 1
    /\ records = {SharedId}
    /\ declCount = 1
    /\ unsubLog = [i \in Ids |-> <<>>]
    /\ out = NoOut
    /\ origin = NoOrigin
    /\ chan = NoChan
    /\ props = NoProps

NextShared ==
    \/ Pull
    \/ CloseBegin
    \/ CloseUnsubscribe
    \/ CloseResolve
    \/ Drop

SpecShared == InitShared /\ [][NextShared]_vars

----------------------------------------------------------------------------
(* One subscription, from its builder to the end of its handle, with the   *)
(* samples the session delivers to its consumer.  The consumer of a        *)
(* handler subscription is the closure built by into_handler around the    *)
(* sender of a bounded flume channel; the caller holds the receiver.       *)

\* send queueing the newest sample first.
send_newestFirst(c, s) ==
    IF ~c.rcv THEN [q |-> c.q, outcome |-> "warned"]
    ELSE IF Len(c.q) < ChanCap THEN [q |-> <<s>> \o c.q, outcome |-> "sent"]
    ELSE [q |-> c.q, outcome |-> "blocked"]

\* The closure unwrapping the result of send.
send_unwrapped(c, s) ==
    IF ~c.rcv THEN [q |-> c.q, outcome |-> "panic"]
    ELSE IF Len(c.q) < ChanCap THEN [q |-> Append(c.q, s), outcome |-> "sent"]
    ELSE [q |-> c.q, outcome |-> "blocked"]

\* The closure of into_handler: sender.send(s), an Err logged as a warning
\* and nothing else done with it.  flume's Sender::send on a bounded
\* channel: an error once every receiver is gone, the sample queued when
\* there is room, and otherwise the sender waits ("blocked": the call has
\* not returned).
send(c, s) ==
    IF ~c.rcv THEN [q |-> c.q, outcome |-> "warned"]
    ELSE IF Len(c.q) < ChanCap THEN [q |-> Append(c.q, s), outcome |-> "sent"]
    ELSE [q |-> c.q, outcome |-> "blocked"]

\* One invocation of the consumer of a subscription of kind k: the caller's
\* own callback, or the closure around the channel.
consume(k, c, s) ==
    IF k = "hd" THEN send(c, s) ELSE [q |-> c.q, outcome |-> "called"]

\* The subscription's handle and the kind of its consumer.
Sub == handles[1]

\* subscribe() on the session, once.
SubscribeOnce == builder = NoBuilder /\ Subscribe

\* The builder resolved by wait(): the declare call, the handle built from
\* its answer and, for a handler subscription, the receiver handed to the
\* caller along with it.
WaitDeclare ==
    /\ Usable
    /\ \E resp \in Responses :
          LET r == wait(builder, resp).r
          IN  /\ Resolve("wait", wait(builder, resp), resp)
              /\ origin' = IF Len(r.calls) > 0
                           THEN [fn |-> r.calls[1].fn, local |-> builder.local]
                           ELSE origin
              /\ chan' = IF r.hkind = "hd" THEN [NoChan EXCEPT !.rcv = TRUE]
                                           ELSE chan
    /\ UNCHANGED props

\* The session starts an invocation of the consumer of a registered record
\* with the next sample.  The consumer sits behind a RwLock: one invocation
\* at a time.
Invoke ==
    /\ records # {}
    /\ chan.sending = 0
    /\ chan.invoked < MaxSamples
    /\ chan' = [chan EXCEPT !.sending = chan.invoked + 1,
                            !.invoked = chan.invoked + 1]
    /\ UNCHANGED <<builder, stats, handles, out, origin, props>>
    /\ SessionUnchanged

\* The invocation in progress returns to the session.
Return ==
    LET r == consume(Sub.kind, chan, chan.sending)
    IN  /\ chan.sending # 0
        /\ r.outcome # "blocked"
        /\ chan' = [chan EXCEPT !.q = r.q, !.sending = 0,
                                !.last = [sample |-> chan.sending,
                                          rcv |-> chan.rcv,
                                          outcome |-> r.outcome]]
        /\ UNCHANGED <<builder, stats, handles, out, origin, props>>
        /\ SessionUnchanged

\* The caller reads one sample from the receiver.
Recv ==
    /\ chan.rcv
    /\ chan.q # <<>>
    /\ chan' = [chan EXCEPT !.q = Tail(chan.q),
                            !.taken = Append(chan.taken, Head(chan.q))]
    /\ UNCHANGED <<builder, stats, handles, out, origin, props>>
    /\ SessionUnchanged

\* The caller takes the HandlerSubscriber apart and discards the receiver,
\* keeping the subscriber.
DropReceiver ==
    /\ Sub.pc = "live"
    /\ chan.rcv
    /\ chan' = [chan EXCEPT !.rcv = FALSE]
    /\ UNCHANGED <<builder, stats, handles, out, origin, props>>
    /\ SessionUnchanged

\* close() of the handle: the receiver of a HandlerSubscriber goes with it.
CloseUnsubscribeSub ==
    /\ \E resp \in Responses : CloseUnsubscribeOf(1, resp)
    /\ chan' = [chan EXCEPT !.rcv = FALSE]
    /\ UNCHANGED <<origin, props>>

\* The handle dropped: the receiver of a HandlerSubscriber goes with it.
DropSub ==
    /\ \E resp \in Responses : DropOf(1, resp)
    /\ chan' = [chan EXCEPT !.rcv = FALSE]
    /\ UNCHANGED <<origin, props>>

NextSub ==
    \/ SubscribeOnce
    \/ Callback
    \/ With
    \/ SetLocal
    \/ WaitDeclare
    \/ Pull
    \/ Invoke
    \/ Return
    \/ Recv
    \/ DropReceiver
    \/ CloseBegin
    \/ CloseUnsubscribeSub
    \/ CloseResolve
    \/ DropSub

SpecSub == Init /\ [][NextSub]_vars

\* C12 (as stated): over the whole life of a subscription built with
\* local = true, neither the networked declare entry point nor the
\* undeclare entry point that networked subscriptions go through is
\* invoked; a subscription with local = false is declared through the
\* networked entry point.  The handle keeps no locality and its teardown
\* has one entry point, unsubscribe(id): the statement fails at close or
\* drop of a local subscription.
C12_LocalNeverNetworked ==
    /\ origin.local =>
          /\ origin.fn = "declare_local_subscriber"
          /\ unsubLog[Sub.id] = <<>>
    /\ (~origin.local /\ origin.fn # "-") => origin.fn = "declare_subscriber"

\* C12 (amended): a subscription built with local = true is declared
\* through the local entry point only, one built with local = false through
\* the networked one, one declare call either way; pull forwards a pull
\* request; and the teardown of either makes its one call to the session's
\* single unsubscribe entry point.
C12_LocalDeclareOnly ==
    /\ origin.fn # "-" =>
          origin.fn = IF origin.local THEN "declare_local_subscriber"
                                      ELSE "declare_subscriber"
    /\ out.op \in RunOps =>
          /\ Len(out.calls) <= 1
          /\ out.calls # <<>> => out.calls[1].fn = origin.fn
    /\ out.op = "pull" => out.calls[1].fn = "pull"
    /\ Gone(1) => Len(unsubLog[Sub.id]) = 1

C12_Witness ==
    /\ origin.local
    /\ origin.fn = "declare_local_subscriber"
    /\ Sub.pc = "closed"
    /\ Len(unsubLog[Sub.id]) = 1

\* C15 (as stated): when the consumer of a handler subscription is invoked
\* while the channel is full and the caller does not read, the invocation
\* returns at once, the sample dropped with a warning.  send() on a full
\* bounded channel waits for room instead: the statement fails.
C15_FullBufferDoesNotBlock ==
    (/\ Sub.kind = "hd"
     /\ chan.sending # 0
     /\ chan.rcv
     /\ Len(chan.q) = ChanCap)
    => LET r == send(chan, chan.sending)
       IN  r.outcome = "warned" /\ r.q = chan.q

\* C16: the channel of a handler subscription never holds more than ChanCap
\* samples; what the caller has read followed by what is queued is always
\* the first samples delivered, in delivery order, each once; and once
\* ChanCap + 1 samples were delivered with nothing read, the channel holds
\* exactly the first ChanCap of them.
C16_FirstSamplesInOrder ==
    /\ Len(chan.q) <= ChanCap
    /\ LET all == chan.taken \o chan.q
       IN  \A i \in 1..Len(all) : all[i] = i
    /\ (chan.rcv /\ chan.invoked = ChanCap + 1 /\ chan.taken = <<>>)
          => chan.q = [i \in 1..ChanCap |-> i]

C16_Witness ==
    /\ chan.rcv
    /\ chan.sending = ChanCap + 1
    /\ chan.taken = <<>>
    /\ chan.q = [i \in 1..ChanCap |-> i]

\* C17: when the consumer of a handler subscription is invoked after the
\* receiver was discarded, the invocation returns normally, with a warning
\* logged and neither an error nor a panic, and the sample is in no queue.
C17_ReceiverGoneNoError ==
    /\ (Sub.kind = "hd" /\ chan.sending # 0 /\ ~chan.rcv)
          => send(chan, chan.sending) = [q |-> chan.q, outcome |-> "warned"]
    /\ (Sub.kind = "hd" /\ chan.last.sample # 0 /\ ~chan.last.rcv)
          => /\ chan.last.outcome = "warned"
             /\ \A i \in 1..Len(chan.q) : chan.q[i] # chan.last.sample
             /\ \A i \in 1..Len(chan.taken) : chan.taken[i] # chan.last.sample

C17_Witness ==
    /\ Sub.kind = "hd"
    /\ Sub.pc = "live"
    /\ Sub.id \in records
    /\ ~chan.rcv
    /\ chan.last.sample # 0
    /\ ~chan.last.rcv
    /\ chan.last.outcome = "warned"

\* C19: a handle the caller holds comes from a declare call that was made
\* and answered with a record before the handle was returned, and no
\* consumer is invoked before the declare call that hands it to the session:
\* not while the builder still holds it, and not before a record exists.
C19_RegisteredBeforeHandle ==
    /\ Created(1) =>
          /\ Sub.id \in 1..(nextId - 1)
          /\ origin.fn # "-"
          /\ declCount >= 1
    /\ out.handle # 0 => out.result = "ok" /\ Len(out.calls) = 1
    /\ builder.slot => chan.invoked = 0
    /\ chan.invoked > 0 => origin.fn # "-" /\ nextId > 1

C19_Witness ==
    /\ Created(1)
    /\ chan.invoked > 0
    /\ chan.last.sample # 0

----------------------------------------------------------------------------
(* Properties: a string of ';'-separated key=value entries.  A string is   *)
(* a sequence of characters; a Properties value is its inner string, and   *)
(* two Properties are equal when their inner strings are (derived          *)
(* PartialEq).                                                             *)

LIST_SEPARATOR == ";"

FIELD_SEPARATOR == "="

VALUE_SEPARATOR == "|"

SPACE == " "

NEWLINE == "\n"

Chars ==
    {"a", "b", LIST_SEPARATOR, FIELD_SEPARATOR, VALUE_SEPARATOR, SPACE, NEWLINE}

Strings == UNION {[1..n -> Chars] : n \in 0..MaxLen}

\* The keys and values handed to insert: the empty string and the strings
\* of one character.
Words == {<<>>} \cup {<<c>> : c \in Chars}

\* str::find: the index of the first c in s, 0 when there is none.
find(s, c) ==
    IF \E i \in 1..Len(s) : s[i] = c
    THEN CHOOSE i \in 1..Len(s) : s[i] = c /\ \A j \in 1..(i - 1) : s[j] # c
    ELSE 0

\* split_once: s cut at the first c, the rest empty when there is none.
split_once(s, c) ==
    LET index == find(s, c)
    IN  IF index = 0 THEN <<s, <<>>>>
        ELSE <<SubSeq(s, 1, index - 1), SubSeq(s, index + 1, Len(s))>>

\* str::split: the pieces of s between occurrences of c, empty ones kept.
RECURSIVE split(_, _)
split(s, c) ==
    LET index == find(s, c)
    IN  IF index = 0 THEN <<s>>
        ELSE <<SubSeq(s, 1, index - 1)>> \o split(SubSeq(s, index + 1, Len(s)), c)

\* str::trim_end_matches with the three separators.
RECURSIVE trim_end_matches(_)
trim_end_matches(s) ==
    IF s # <<>> /\ s[Len(s)] \in {LIST_SEPARATOR, FIELD_SEPARATOR, VALUE_SEPARATOR}
    THEN trim_end_matches(SubSeq(s, 1, Len(s) - 1))
    ELSE s

\* Properties::from(&str): the string without its trailing separators.
from(value) == trim_end_matches(value)

\* Properties::iter: the non-empty entries, each cut at its first '='.
iter(p) ==
    LET entries == SelectSeq(split(p, LIST_SEPARATOR), LAMBDA e : e # <<>>)
    IN  [i \in 1..Len(entries) |-> split_once(entries[i], FIELD_SEPARATOR)]

\* concat of from_iter: pairs with an empty key are left out, entries are
\* joined by ';', and '=' is written only before a non-empty value.
RECURSIVE concat(_, _, _)
concat(pairs, into, first) ==
    IF pairs = <<>> THEN into
    ELSE LET k == Head(pairs)[1]
             v == Head(pairs)[2]
         IN  IF k = <<>> THEN concat(Tail(pairs), into, first)
             ELSE concat(Tail(pairs),
                         into \o (IF first THEN <<>> ELSE <<LIST_SEPARATOR>>)
                              \o k
                              \o (IF v # <<>> THEN <<FIELD_SEPARATOR>> \o v
                                              ELSE <<>>),
                         FALSE)

\* Properties::from_iter.
from_iter(pairs) == concat(pairs, <<>>, TRUE)

\* Properties::get: the value of the first entry whose key is k.
get(p, k) ==
    LET found == SelectSeq(iter(p), LAMBDA e : e[1] = k)
    IN  IF found = <<>> THEN <<"None">> ELSE <<"Some", found[1][2]>>

\* Properties::insert: the old value, and the properties rebuilt from the
\* entries with another key followed by (k, v).
insert(p, k, v) ==
    LET item    == get(p, k)
        current == SelectSeq(iter(p), LAMBDA x : x[1] # k)
    IN  [item |-> item, p |-> from_iter(current \o <<<<k, v>>>>)]

InitProps ==
    /\ builder = NoBuilder
    /\ stats = NoStats
    /\ handles = [h \in HandleIds |-> NoHandle]
    /\ nextId = 1
    /\ records = {}
    /\ declCount = 0
    /\ unsubLog = [i \in Ids |-> <<>>]
    /\ out = NoOut
    /\ origin = NoOrigin
    /\ chan = NoChan
    /\ \E s \in Strings : props = [NoProps EXCEPT !.pc = "input", !.input = s]

\* Properties::from(input).
Parse ==
    /\ props.pc = "input"
    /\ props' = [props EXCEPT !.pc = "parsed", !.parsed = from(props.input)]
    /\ UNCHANGED <<builder, stats, handles, out, origin, chan>>
    /\ SessionUnchanged

\* Properties::from_iter over the pairs of the parsed properties.
Build ==
    /\ props.pc = "parsed"
    /\ props' = [props EXCEPT !.pc = "built",
                              !.built = from_iter(iter(props.parsed))]
    /\ UNCHANGED <<builder, stats, handles, out, origin, chan>>
    /\ SessionUnchanged

\* Properties::insert(k, v) on the parsed properties.
Insert ==
    /\ props.pc = "parsed"
    /\ \E k, v \in Words :
          LET r == insert(props.parsed, k, v)
          IN  props' = [props EXCEPT !.pc = "inserted", !.key = k, !.val = v,
                                     !.ret = r.item, !.after = r.p]
    /\ UNCHANGED <<builder, stats, handles, out, origin, chan>>
    /\ SessionUnchanged

NextProps ==
    \/ Parse
    \/ Build
    \/ Insert

SpecProps == InitProps /\ [][NextProps]_vars

----------------------------------------------------------------------------
(* The builders' setters and what reaches the session *)

\* The fields in which two builders differ.
Differing(a, b) == {f \in DOMAIN a : a[f] # b[f]}

\* What every setter leaves alone but for its own field(s) fs.
OnlyChanges(nb, fs) == Differing(builder, nb) \subseteq fs

\* C23 (as stated): every setter returns a builder that differs from the one
\* it was given in its own field only: reliability for reliability(),
\* reliable() and best_effort(), mode for mode(), push_mode() and
\* pull_mode(), period for period(), locality for local().  push_mode()
\* also writes the period, so the statement fails.
C23_OneFieldPerSetter ==
    Usable =>
        /\ \A r \in Reliabilities : OnlyChanges(reliability(builder, r), {"reliability"})
        /\ OnlyChanges(reliable(builder), {"reliability"})
        /\ OnlyChanges(best_effort(builder), {"reliability"})
        /\ \A m \in SubModes : OnlyChanges(mode(builder, m), {"mode"})
        /\ OnlyChanges(push_mode(builder), {"mode"})
        /\ OnlyChanges(pull_mode(builder), {"mode"})
        /\ \A p \in Periods : OnlyChanges(period(builder, p), {"period"})
        /\ OnlyChanges(local(builder), {"local"})

\* C23 (amended): every setter changes its own field only, the key
\* expression and the attached consumer never, with one exception:
\* push_mode() sets the mode to Push and the period to none.
C23_SetterFrame ==
    Usable =>
        /\ \A r \in Reliabilities : OnlyChanges(reliability(builder, r), {"reliability"})
        /\ OnlyChanges(reliable(builder), {"reliability"})
        /\ OnlyChanges(best_effort(builder), {"reliability"})
        /\ \A m \in SubModes : OnlyChanges(mode(builder, m), {"mode"})
        /\ OnlyChanges(push_mode(builder), {"mode", "period"})
        /\ push_mode(builder).mode = "Push"
        /\ push_mode(builder).period = "None"
        /\ OnlyChanges(pull_mode(builder), {"mode"})
        /\ \A p \in Periods : OnlyChanges(period(builder, p), {"period"})
        /\ OnlyChanges(local(builder), {"local"})

C23_Witness ==
    /\ Usable
    /\ builder.slot
    /\ builder.mode = "Pull"
    /\ builder.period = "Some(p)"
    /\ builder.local
    /\ builder.reliability = "BestEffort"

\* C24: the declare call of a resolution carries the configuration the
\* builder holds at that moment: key expression, reliability, mode and
\* period for a non-local subscription, the key expression alone for a
\* local one; and specialising a SubscriberBuilder with callback() or with()
\* keeps the configuration set so far.
C24_ConfigurationForwarded ==
    [][/\ (out'.op \in RunOps /\ stats'.runs = stats.runs + 1
                              /\ out'.calls # <<>>) =>
             out'.calls = <<IF builder.local
                            THEN [fn |-> "declare_local_subscriber",
                                  key_expr |-> builder.key_expr, id |-> 0,
                                  info |-> NoInfo]
                            ELSE [fn |-> "declare_subscriber",
                                  key_expr |-> builder.key_expr, id |-> 0,
                                  info |-> [reliability |-> builder.reliability,
                                            mode |-> builder.mode,
                                            period |-> builder.period]]>>
       /\ (builder.kind = "sub" /\ builder'.kind \in {"cb", "hd"}) =>
             Differing(builder, builder') \subseteq {"kind", "slot"}]_vars

C24_Witness ==
    /\ out.op \in RunOps
    /\ builder.kind \in {"cb", "hd"}
    /\ out.calls # <<>>
    /\ out.calls[1].fn = "declare_subscriber"
    /\ out.calls[1].info = [reliability |-> "BestEffort", mode |-> "Pull",
                            period |-> "Some(p)"]

\* C25: when a run of a CallbackSubscriberBuilder or HandlerSubscriberBuilder
\* made its declare call and the session answered with an error, the
\* builder's slot is empty; a run on an empty slot panics, makes no call and
\* returns no handle.
C25_FailedRunConsumes ==
    builder.kind \in {"cb", "hd"} =>
        /\ (out.op \in {"run", "poll"} /\ out.calls # <<>> /\ out.result = "err")
              => /\ ~builder.slot
                 /\ \A resp \in Responses :
                       /\ run(builder, resp).result = "panic"
                       /\ run(builder, resp).calls = <<>>
                       /\ run(builder, resp).hkind = "none"
        /\ (out.op \in RunOps /\ out.result = "panic")
              => out.calls = <<>> /\ out.handle = 0

C25_Witness ==
    /\ builder.kind \in {"cb", "hd"}
    /\ out.op \in {"run", "poll"}
    /\ out.result = "panic"
    /\ stats.runs = 2
    /\ stats.decls = 1
    /\ declCount = 1
    /\ nextId = 1

----------------------------------------------------------------------------
(* Properties: insert, separators and whitespace *)

\* The entries of p whose key is not k, in order.
Others(p, k) == SelectSeq(iter(p), LAMBDA e : e[1] # k)

\* C21 (as stated): insert(k, v) returns None when k was absent and the old
\* value when it was present; afterwards get(k) is v, exactly one entry has
\* key k, and the entries with another key are the same, in the same order.
\* The properties are rebuilt as a string with nothing escaped and empty
\* keys left out, so the statement fails for an empty key and for keys and
\* values that hold a separator.
C21_InsertThenGet ==
    props.pc = "inserted" =>
        /\ props.ret = get(props.parsed, props.key)
        /\ get(props.after, props.key) = <<"Some", props.val>>
        /\ Len(SelectSeq(iter(props.after), LAMBDA e : e[1] = props.key)) = 1
        /\ Others(props.after, props.key) = Others(props.parsed, props.key)

\* C22 (as stated): a newline separates entries as ';' does, and keys and
\* values come out trimmed: no key or value returned by iter (and so by get)
\* holds a newline or starts or ends with whitespace.  Parsing splits on ';'
\* only and trims nothing: the statement fails.
C22_NewlineAndTrim ==
    props.pc = "parsed" =>
        \A i \in 1..Len(iter(props.parsed)) :
            \A j \in 1..2 :
                LET w == iter(props.parsed)[i][j]
                IN  /\ \A n \in 1..Len(w) : w[n] # NEWLINE
                    /\ w # <<>> => /\ w[1] # SPACE
                                   /\ w[Len(w)] # SPACE

====
